---- MODULE Spec2Model ----
(***************************************************************************)
(* library_converter.py: a report of candidate path strings is resolved    *)
(* against a root folder (plan_from_xlsx), every resolved file gets zero   *)
(* or one action (decide_actions_for_path), and apply_actions runs the     *)
(* actions one at a time: allocate the destination, run ffmpeg, verify the *)
(* output, then remove the original or the partial output.                 *)
(*                                                                         *)
(* A path is a record [dir, base, ctr, ext]: dir is the sequence of        *)
(* directory components, and the file name is base, followed by one        *)
(* " (N)" for every N of ctr, followed by "." and ext. The filesystem fs  *)
(* is a function from the paths that exist to their contents.              *)
(***************************************************************************)
EXTENDS Integers, Sequences, FiniteSets, TLC

\* ------- bounds -------

\* longest list of candidate strings the report yields
MaxCand == 2

\* ------- constants -------

M4A_EXTS == {"m4a", "mp4"}
FLAC_EXTS == {"flac"}
MUSIC_EXTS == FLAC_EXTS \cup M4A_EXTS

\* verify_audio_ok: dur > 0.5, durations counted in tenths of a second
MinDurTenths == 5

\* ------- paths -------

root == <<"lib">>
MusicDir == <<"lib", "Music">>

NoPath == [dir |-> <<>>, base |-> "", ctr |-> <<>>, ext |-> ""]

FileAt(d, b, e) == [dir |-> d, base |-> b, ctr |-> <<>>, ext |-> e]

\* str.lower() on the extensions that occur
Lower(e) == CASE e = "MP4" -> "mp4"
              [] e = "M4A" -> "m4a"
              [] e = "FLAC" -> "flac"
              [] OTHER -> e

\* Path.with_suffix
with_suffix(p, e) == [p EXCEPT !.ext = e]

\* Path.exists / Path.is_file: every entry of fs is a regular file
exists(f, p) == p \in DOMAIN f

\* Path.resolve on a sequence of components: ".." drops the component before it
RECURSIVE ResolveDir(_, _)
ResolveDir(todo, done) ==
    IF todo = <<>> THEN done
    ELSE IF Head(todo) = ".."
         THEN ResolveDir(Tail(todo),
                         IF done = <<>> THEN done ELSE SubSeq(done, 1, Len(done) - 1))
         ELSE ResolveDir(Tail(todo), Append(done, Head(todo)))

IsPrefix(s, t) == Len(s) <= Len(t) /\ SubSeq(t, 1, Len(s)) = s

\* a candidate string: absolute or not, its directory part and its final component
normalize_to_root(raw, r) ==
    IF raw.abs THEN [dir |-> raw.dir, base |-> raw.base, ctr |-> raw.ctr, ext |-> raw.ext]
    ELSE [dir |-> r \o raw.dir, base |-> raw.base, ctr |-> raw.ctr, ext |-> raw.ext]

\* faulty variant: the containment test compares the paths as they are written
is_under_lexical(child, r) == IsPrefix(r, child.dir)

\* child.resolve().relative_to(root.resolve()) does not raise
is_under(child, r) == IsPrefix(ResolveDir(r, <<>>), ResolveDir(child.dir, <<>>))

\* the file the operating system reaches by following p
RealPath(p) == [p EXCEPT !.dir = ResolveDir(@, <<>>)]

\* p.exists() and p.is_file(), for a p as it stands in a candidate
is_file(f, p) == exists(f, RealPath(p))

\* the while loop of unique_target_path, from counter n on
RECURSIVE FirstFree(_, _, _)
FirstFree(f, target, n) ==
    LET cand == [target EXCEPT !.ctr = Append(@, n)]
    IN  IF ~exists(f, cand) THEN cand ELSE FirstFree(f, target, n + 1)

\* faulty variant: the first numbered name is returned without looking at it
unique_target_path_first(f, target) ==
    IF ~exists(f, target) THEN target ELSE [target EXCEPT !.ctr = Append(@, 2)]

unique_target_path(f, target) ==
    IF ~exists(f, target) THEN target ELSE FirstFree(f, target, 2)

\* ------- file contents and the external tools -------

\* by: 0 for a file present before the run, else the index of the action whose
\* transcode wrote it; probe: ffprobe exits 0 on it; audio: it has an audio
\* stream; dur: its duration in tenths of a second; dec: it decodes cleanly
Content(by, probe, audio, dur, dec) ==
    [by |-> by, probe |-> probe, audio |-> audio, dur |-> dur, dec |-> dec]

OrigGood == Content(0, TRUE, TRUE, 6, TRUE)
OrigBroken == Content(0, TRUE, TRUE, 6, FALSE)

\* what a transcode can leave at its output path
OutGood(i) == Content(i, TRUE, TRUE, 6, TRUE)
OutShort(i) == Content(i, TRUE, TRUE, 5, FALSE)
OutNoAudio(i) == Content(i, TRUE, FALSE, 6, FALSE)
OutJunk(i) == Content(i, FALSE, FALSE, 0, FALSE)
NoOutput == Content(-1, FALSE, FALSE, 0, FALSE)
FfmpegOutputs(i) == {OutGood(i), OutShort(i), OutNoAudio(i), OutJunk(i)}

ffmpeg_decode_test(f, p) == f[p].dec

\* faulty variant: a duration of exactly half a second is accepted
verify_audio_ok_inclusive(f, p) ==
    IF ~exists(f, p) \/ ~f[p].probe THEN FALSE
    ELSE f[p].audio /\ f[p].dur >= MinDurTenths

verify_audio_ok(f, p) ==
    IF ~exists(f, p) \/ ~f[p].probe THEN FALSE
    ELSE f[p].audio /\ f[p].dur > MinDurTenths

\* os.remove that succeeded
Removed(f, p) == [q \in DOMAIN f \ {p} |-> f[q]]

\* a file written (created or overwritten)
Written(f, p, c) == [q \in DOMAIN f \cup {p} |-> IF q = p THEN c ELSE f[q]]

\* ------- planning -------

build_ffmpeg_cmd_convert_to_flac(src, dst) == [input |-> src, output |-> dst]

Action(kind, src, dst, cmd, note) ==
    [kind |-> kind, src |-> src, dst |-> dst, cmd |-> cmd, note |-> note]

PlannedDst(f, src) ==
    LET d == with_suffix(src, "flac")
    IN  IF exists(f, d) THEN unique_target_path(f, d) ELSE d

\* faulty variant: the extension is compared as it is spelled
decide_actions_case_sensitive(f, src) ==
    LET dst == PlannedDst(f, src)
        cmd == build_ffmpeg_cmd_convert_to_flac(src, dst)
    IN  IF src.ext \in M4A_EXTS
        THEN <<Action("convert_m4a", src, dst, cmd, "m4a->flac")>>
        ELSE IF src.ext \in FLAC_EXTS
        THEN IF ffmpeg_decode_test(f, src) THEN <<>>
             ELSE <<Action("repair_flac", src, dst, cmd, "re-encode flac")>>
        ELSE <<>>

decide_actions_for_path(f, src) ==
    LET e == Lower(src.ext)
        dst == PlannedDst(f, src)
        cmd == build_ffmpeg_cmd_convert_to_flac(src, dst)
    IN  IF e \in M4A_EXTS
        THEN <<Action("convert_m4a", src, dst, cmd, "m4a->flac")>>
        ELSE IF e \in FLAC_EXTS
        THEN IF ffmpeg_decode_test(f, src) THEN <<>>
             ELSE <<Action("repair_flac", src, dst, cmd, "re-encode flac")>>
        ELSE <<>>

\* lines 238-250: the file a candidate resolves to, NoPath when none
Resolve(f, raw, r) ==
    LET p_try == normalize_to_root(raw, r)
        p2 == [dir |-> r, base |-> raw.base, ctr |-> raw.ctr, ext |-> raw.ext]
    IN  IF is_file(f, p_try) /\ is_under(p_try, r) THEN p_try
        ELSE IF is_file(f, p2) THEN p2
        ELSE NoPath

Kinds(acts) == [i \in 1..Len(acts) |-> acts[i].kind]

Row(raw, resolved, status, kinds) ==
    [raw |-> raw, resolved |-> resolved, status |-> status, kinds |-> kinds]

\* the row of one candidate, lines 252-264
PlanRow(f, raw, r) ==
    LET resolved == Resolve(f, raw, r)
    IN  IF resolved = NoPath THEN Row(raw, NoPath, "NOT FOUND", <<>>)
        ELSE IF Lower(resolved.ext) \notin MUSIC_EXTS
        THEN Row(raw, resolved, "SKIP", <<>>)
        ELSE LET acts == decide_actions_for_path(f, resolved)
             IN  IF acts = <<>> THEN Row(raw, resolved, "OK (no fix required)", <<>>)
                 ELSE Row(raw, resolved, "PLAN", Kinds(acts))

PlanActs(f, raw, r) ==
    LET resolved == Resolve(f, raw, r)
    IN  IF resolved = NoPath \/ Lower(resolved.ext) \notin MUSIC_EXTS THEN <<>>
        ELSE decide_actions_for_path(f, resolved)

\* faulty variant: the new actions are put in front
extend_front(acts, more) == more \o acts

\* list.extend, line 265
extend(acts, more) == acts \o more

\* ------- inputs -------

Raw(abs, d, b, e) == [abs |-> abs, dir |-> d, base |-> b, ctr |-> <<>>, ext |-> e]

\* "a.m4a", "Music/a.m4a", "a.MP4", "a.flac"
Raws == {Raw(FALSE, <<>>, "a", "m4a"), Raw(FALSE, <<"Music">>, "a", "m4a"),
         Raw(FALSE, <<>>, "a", "MP4"), Raw(FALSE, <<>>, "a", "flac")}

CandidateLists == UNION {[1..n -> Raws] : n \in 0..MaxCand}

\* the files that may be there before the run; a.flac may be one that does not
\* decode, and a (2).flac is there only next to an a.flac that took its name
A2Flac == [dir |-> root, base |-> "a", ctr |-> <<2>>, ext |-> "flac"]

InitPaths == {FileAt(root, "a", "m4a"), FileAt(root, "a", "MP4"),
              FileAt(root, "a", "flac"), FileAt(MusicDir, "a", "m4a"), A2Flac}

InitFS == {f \in UNION {[S -> {OrigGood, OrigBroken}] : S \in SUBSET InitPaths} :
              /\ \A p \in DOMAIN f : f[p] = OrigBroken => p = FileAt(root, "a", "flac")
              /\ A2Flac \in DOMAIN f => /\ FileAt(root, "a", "flac") \in DOMAIN f
                                        /\ f[FileAt(root, "a", "flac")] = OrigGood}

\* the inputs of path resolution: a folder beside root with files of its own,
\* and candidates that are absolute or climb out of root.
\* "a.m4a", "Music/a.m4a", "/lib/Music/a.m4a", "/other/a.m4a",
\* "../other/a.m4a", "/other/b.m4a"
OtherDir == <<"other">>

ResolveRaws == {Raw(FALSE, <<>>, "a", "m4a"), Raw(FALSE, <<"Music">>, "a", "m4a"),
                Raw(TRUE, MusicDir, "a", "m4a"), Raw(TRUE, OtherDir, "a", "m4a"),
                Raw(FALSE, <<"..", "other">>, "a", "m4a"),
                Raw(TRUE, OtherDir, "b", "m4a")}

ResolveLists == UNION {[1..n -> ResolveRaws] : n \in 0..MaxCand}

ResolvePaths == {FileAt(root, "a", "m4a"), FileAt(MusicDir, "a", "m4a"),
                 FileAt(OtherDir, "a", "m4a"), FileAt(OtherDir, "b", "m4a")}

ResolveFS == UNION {[S -> {OrigGood}] : S \in SUBSET ResolvePaths}

\* the inputs of a whole run of main: a small library, and every combination of
\* what main's checks can find
MainRaws == {Raw(FALSE, <<>>, "a", "m4a"), Raw(FALSE, <<>>, "a", "flac")}

MainLists == UNION {[1..n -> MainRaws] : n \in 0..MaxCand}

MainFS == UNION {[S -> {OrigGood, OrigBroken}] :
                    S \in SUBSET {FileAt(root, "a", "m4a"), FileAt(root, "a", "flac")}}

\* a report that names one file twice: "a (2).flac", "a.m4a", "a.MP4",
\* "Music/a (2).flac", over a library where a (2).flac, if there, may be one
\* that does not decode
A2Raw(d) == [abs |-> FALSE, dir |-> d, base |-> "a", ctr |-> <<2>>, ext |-> "flac"]

DupReport == <<A2Raw(<<>>), Raw(FALSE, <<>>, "a", "m4a"), Raw(FALSE, <<>>, "a", "MP4"),
               A2Raw(<<"Music">>)>>

BatchLists == {SubSeq(DupReport, 1, n) : n \in 0..Len(DupReport)}

BatchFS == {f \in UNION {[S -> {OrigGood, OrigBroken}] :
                            S \in SUBSET {A2Flac, FileAt(root, "a", "m4a"),
                                          FileAt(root, "a", "MP4")}} :
              \A p \in DOMAIN f : f[p] = OrigBroken => p = A2Flac}

\* ------- state -------

VARIABLES
    fs,          \* the filesystem: existing path -> content
    fs0,         \* the filesystem when the run started
    candidates,  \* the candidate strings of the report, in order
    preview,     \* not args.apply
    pc,          \* where the run is
    ci,          \* plan_from_xlsx: candidates consumed so far
    seen,        \* plan_from_xlsx: seen
    rows,        \* plan_from_xlsx: rows
    actions,     \* plan_from_xlsx: actions
    idx,         \* apply_actions: idx, the action being executed
    dst,         \* apply_actions: dst of the action being executed
    cmd,         \* apply_actions: cmd of the action being executed
    rc,          \* apply_actions: rc of the action being executed
    procs,       \* the external transcoder processes in flight
    calls,       \* every transcoder invocation so far: [idx, cmd]
    log,         \* the rows of the audit log csv, after the header
    warned,      \* the [WARN] lines of safe_remove: [idx, path]
    before,      \* the filesystem when the action being executed started
    success,     \* apply_actions: success
    error,       \* apply_actions: error
    disk,        \* the rows of the audit log that have reached the file
    env,         \* what main finds: tools on PATH, report, root folder
    exitcode     \* the exit code of the run, NoExit while it runs

vars == <<fs, fs0, candidates, preview, pc, ci, seen, rows, actions, idx, dst, cmd,
          rc, procs, calls, log, warned, before, success, error, disk, env, exitcode>>

mainVars == <<env, exitcode>>
planVars == <<ci, seen, rows, actions>>
runVars == <<idx, dst, cmd, rc, procs, calls, log, warned, before, success, error>>
inputVars == <<fs0, candidates, preview>>

NoCmd == [input |-> NoPath, output |-> NoPath]
NoRc == -1
NoExit == -1

\* tools: ffmpeg and ffprobe are on PATH; xlsx: the report exists; readable:
\* pandas can read it; rootdir: root exists and is a directory
Env(tools, xlsx, readable, rootdir) ==
    [tools |-> tools, xlsx |-> xlsx, readable |-> readable, rootdir |-> rootdir]

EnvOK == Env(TRUE, TRUE, TRUE, TRUE)

LogRow(a, d, status) ==
    [kind |-> a.kind, source |-> a.src, destination |-> d, status |-> status,
     note |-> a.note]

Init ==
    /\ fs \in InitFS
    /\ fs0 = fs
    /\ candidates \in CandidateLists
    /\ preview \in BOOLEAN
    /\ pc = "plan"
    /\ ci = 0
    /\ seen = {}
    /\ rows = <<>>
    /\ actions = <<>>
    /\ idx = 0
    /\ dst = NoPath
    /\ cmd = NoCmd
    /\ rc = NoRc
    /\ procs = {}
    /\ calls = <<>>
    /\ log = <<>>
    /\ warned = {}
    /\ before = fs
    /\ success = 0
    /\ error = 0
    /\ disk = <<>>
    /\ env = EnvOK
    /\ exitcode = NoExit

\* a Preview run (the default mode) over the inputs of path resolution
InitResolve ==
    /\ fs \in ResolveFS
    /\ fs0 = fs
    /\ candidates \in ResolveLists
    /\ preview = TRUE
    /\ pc = "plan"
    /\ ci = 0
    /\ seen = {}
    /\ rows = <<>>
    /\ actions = <<>>
    /\ idx = 0
    /\ dst = NoPath
    /\ cmd = NoCmd
    /\ rc = NoRc
    /\ procs = {}
    /\ calls = <<>>
    /\ log = <<>>
    /\ warned = {}
    /\ before = fs
    /\ success = 0
    /\ error = 0
    /\ disk = <<>>
    /\ env = EnvOK
    /\ exitcode = NoExit

\* a run over the report that names one file twice
InitBatch ==
    /\ fs \in BatchFS
    /\ fs0 = fs
    /\ candidates \in BatchLists
    /\ preview \in BOOLEAN
    /\ pc = "plan"
    /\ ci = 0
    /\ seen = {}
    /\ rows = <<>>
    /\ actions = <<>>
    /\ idx = 0
    /\ dst = NoPath
    /\ cmd = NoCmd
    /\ rc = NoRc
    /\ procs = {}
    /\ calls = <<>>
    /\ log = <<>>
    /\ warned = {}
    /\ before = fs
    /\ success = 0
    /\ error = 0
    /\ disk = <<>>
    /\ env = EnvOK
    /\ exitcode = NoExit

\* a run of main from its first line
InitMain ==
    /\ fs \in MainFS
    /\ fs0 = fs
    /\ candidates \in MainLists
    /\ preview \in BOOLEAN
    /\ pc = "main"
    /\ ci = 0
    /\ seen = {}
    /\ rows = <<>>
    /\ actions = <<>>
    /\ idx = 0
    /\ dst = NoPath
    /\ cmd = NoCmd
    /\ rc = NoRc
    /\ procs = {}
    /\ calls = <<>>
    /\ log = <<>>
    /\ warned = {}
    /\ before = fs
    /\ success = 0
    /\ error = 0
    /\ disk = <<>>
    /\ env \in [tools : BOOLEAN, xlsx : BOOLEAN, readable : BOOLEAN, rootdir : BOOLEAN]
    /\ exitcode = NoExit

\* ------- main -------

\* faulty variant: the report and the root are looked at before the tools
PreflightReportFirst ==
    /\ pc = "main"
    /\ IF ~env.xlsx \/ ~env.rootdir THEN pc' = "exit" /\ exitcode' = 1
       ELSE IF ~env.tools THEN pc' = "exit" /\ exitcode' = 2
       ELSE pc' = "read" /\ UNCHANGED exitcode
    /\ UNCHANGED <<fs, planVars, runVars, inputVars, env, disk>>

\* lines 382-392: require_tools exits with 2; a missing report or a root that is
\* no directory exits with 1
Preflight ==
    /\ pc = "main"
    /\ IF ~env.tools THEN pc' = "exit" /\ exitcode' = 2
       ELSE IF ~env.xlsx \/ ~env.rootdir THEN pc' = "exit" /\ exitcode' = 1
       ELSE pc' = "read" /\ UNCHANGED exitcode
    /\ UNCHANGED <<fs, planVars, runVars, inputVars, env, disk>>

\* lines 402 and 227, read_all_sheets: a report that cannot be read exits with 1
ReadReport ==
    /\ pc = "read"
    /\ IF env.readable THEN pc' = "plan" /\ UNCHANGED exitcode
       ELSE pc' = "exit" /\ exitcode' = 1
    /\ UNCHANGED <<fs, planVars, runVars, inputVars, env, disk>>

\* lines 422-425: apply_actions has returned, main prints the totals and returns
MainReturn ==
    /\ pc = "done"
    /\ pc' = "exit"
    /\ exitcode' = 0
    /\ UNCHANGED <<fs, planVars, runVars, inputVars, env, disk>>

\* ------- plan_from_xlsx -------

\* one pass of the loop over candidates, lines 233-265
PlanCandidate ==
    /\ pc = "plan"
    /\ ci < Len(candidates)
    /\ LET raw == candidates[ci + 1]
       IN  /\ ci' = ci + 1
           /\ IF raw \in seen
              THEN UNCHANGED <<seen, rows, actions>>
              ELSE /\ seen' = seen \cup {raw}
                   /\ rows' = Append(rows, PlanRow(fs, raw, root))
                   /\ actions' = extend(actions, PlanActs(fs, raw, root))
    /\ UNCHANGED <<fs, pc, runVars, inputVars, mainVars, disk>>

\* plan_from_xlsx returns; apply_actions opens the log (mode "w": the file is
\* created or emptied) and writes the header, which like every row goes to the
\* file object's buffer
PlanDone ==
    /\ pc = "plan"
    /\ ci = Len(candidates)
    /\ pc' = "loop"
    /\ disk' = <<>>
    /\ UNCHANGED <<fs, planVars, runVars, inputVars, mainVars>>

\* ------- apply_actions -------

\* lines 339-341
FinalCmd(a, d) == IF d # a.cmd.output THEN [a.cmd EXCEPT !.output = d] ELSE a.cmd

\* faulty variant: the planned destination is used as it is
ExecDstPlanned(f, a) == a.dst

\* line 332: the destination is allocated again when the action starts
ExecDst(f, a) == unique_target_path(f, a.dst)

\* lines 327-336, Preview: the next action is printed and logged, nothing is run.
\* (Every planned action's kind is convert_m4a or repair_flac, so the filter of
\* line 328 skips nothing.)
PreviewAction ==
    /\ pc = "loop"
    /\ idx < Len(actions)
    /\ preview
    /\ idx' = idx + 1
    /\ dst' = ExecDst(fs, actions[idx + 1])
    /\ before' = fs
    /\ log' = Append(log, LogRow(actions[idx + 1], ExecDst(fs, actions[idx + 1]), "PREVIEW"))
    /\ UNCHANGED <<fs, planVars, pc, cmd, rc, procs, calls, warned, success, error,
                   inputVars, mainVars, disk>>

\* faulty variant: the transcoder is launched whatever the mode
StartTranscodeAnyMode ==
    /\ pc = "loop"
    /\ idx < Len(actions)
    /\ LET a == actions[idx + 1]
           d == ExecDst(fs, a)
           run == [idx |-> idx + 1, cmd |-> FinalCmd(a, d)]
       IN  /\ idx' = idx + 1
           /\ dst' = d
           /\ before' = fs
           /\ cmd' = run.cmd
           /\ procs' = procs \cup {run}
           /\ calls' = Append(calls, run)
    /\ rc' = NoRc
    /\ pc' = "running"
    /\ UNCHANGED <<fs, planVars, log, warned, success, error, inputVars, mainVars, disk>>

\* lines 327-343 and 280, Apply: the next action starts and its transcoder is launched
StartTranscode ==
    /\ pc = "loop"
    /\ idx < Len(actions)
    /\ ~preview
    /\ LET a == actions[idx + 1]
           d == ExecDst(fs, a)
           run == [idx |-> idx + 1, cmd |-> FinalCmd(a, d)]
       IN  /\ idx' = idx + 1
           /\ dst' = d
           /\ before' = fs
           /\ cmd' = run.cmd
           /\ procs' = procs \cup {run}
           /\ calls' = Append(calls, run)
    /\ rc' = NoRc
    /\ pc' = "running"
    /\ UNCHANGED <<fs, planVars, log, warned, success, error, inputVars, mainVars, disk>>

\* run_ffmpeg_with_progress returns: the transcoder has exited with code code,
\* leaving nothing, or a file, at its output path. A transcoder whose input is
\* missing fails before it opens its output. What a failed transcoder leaves is
\* never read, only found to exist: one such file stands for all, a complete one.
FfmpegExit ==
    /\ pc = "running"
    /\ \E code \in {0, 1} :
       \E out \in {NoOutput} \cup FfmpegOutputs(idx) :
          /\ ~exists(fs, cmd.input) => code = 1 /\ out = NoOutput
          /\ code = 1 => out \in {NoOutput, OutGood(idx)}
          /\ rc' = code
          /\ fs' = IF out = NoOutput THEN fs ELSE Written(fs, cmd.output, out)
    /\ procs' = {r \in procs : r.idx # idx}
    /\ pc' = "exited"
    /\ UNCHANGED <<planVars, idx, dst, cmd, calls, log, warned, before, success, error,
                   inputVars, mainVars, disk>>

\* faulty variant: exit code 0 is taken for success, the output is not looked at
OutcomeExitCodeOnly(f, code, d) == IF code # 0 THEN "ERROR" ELSE "OK"

\* lines 344-360: the status of the action from the exit code and the output
Outcome(f, code, d) ==
    IF code # 0 THEN "ERROR"
    ELSE IF ~exists(f, d) \/ ~verify_audio_ok(f, d) THEN "ERROR: verify"
    ELSE "OK"

\* safe_remove: os.remove succeeds (ok) or raises, which is only warned about
safe_remove(f, p, ok) == IF ok /\ exists(f, p) THEN Removed(f, p) ELSE f

\* the [WARN] line of safe_remove, printed when os.remove raised
Warn(w, i, f, p, ok) == IF ok /\ exists(f, p) THEN w ELSE w \cup {[idx |-> i, path |-> p]}

\* faulty variant: the first failure ends the batch
LogFailureAbort ==
    /\ pc = "exited"
    /\ Outcome(fs, rc, dst) # "OK"
    /\ log' = Append(log, LogRow(actions[idx], dst, Outcome(fs, rc, dst)))
    /\ error' = error + 1
    /\ pc' = "done"
    /\ UNCHANGED <<fs, planVars, idx, dst, cmd, rc, procs, calls, warned, before, success,
                   inputVars, mainVars, disk>>

\* faulty variant: a failed transcode is started again instead of being logged
LogFailureRetry ==
    /\ pc = "exited"
    /\ Outcome(fs, rc, dst) # "OK"
    /\ procs' = {[idx |-> idx, cmd |-> cmd]}
    /\ rc' = NoRc
    /\ pc' = "running"
    /\ UNCHANGED <<fs, planVars, idx, dst, cmd, calls, log, warned, before, success, error,
                   inputVars, mainVars, disk>>

\* lines 344-347 and 353-356: a failed action is logged and counted
LogFailure ==
    /\ pc = "exited"
    /\ Outcome(fs, rc, dst) # "OK"
    /\ log' = Append(log, LogRow(actions[idx], dst, Outcome(fs, rc, dst)))
    /\ error' = error + 1
    /\ pc' = "cleanup"
    /\ UNCHANGED <<fs, planVars, idx, dst, cmd, rc, procs, calls, warned, before, success,
                   inputVars, mainVars, disk>>

\* faulty variant: the failure path removes the source instead of the partial output
CleanupSource ==
    /\ pc = "cleanup"
    /\ \E ok \in BOOLEAN :
          /\ fs' = safe_remove(fs, actions[idx].src, ok)
          /\ warned' = Warn(warned, idx, fs, actions[idx].src, ok)
    /\ pc' = "loop"
    /\ UNCHANGED <<planVars, idx, dst, cmd, rc, procs, calls, log, before, success, error,
                   inputVars, mainVars, disk>>

\* faulty variant: the failure path removes the destination as it was planned
CleanupPlanned ==
    /\ pc = "cleanup"
    /\ IF exists(fs, actions[idx].dst)
       THEN \E ok \in BOOLEAN :
               /\ fs' = safe_remove(fs, actions[idx].dst, ok)
               /\ warned' = Warn(warned, idx, fs, actions[idx].dst, ok)
       ELSE UNCHANGED <<fs, warned>>
    /\ pc' = "loop"
    /\ UNCHANGED <<planVars, idx, dst, cmd, rc, procs, calls, log, before, success, error,
                   inputVars, mainVars, disk>>

\* lines 349-351 and 357-359: remove partial output, then the next action
Cleanup ==
    /\ pc = "cleanup"
    /\ IF exists(fs, dst)
       THEN \E ok \in BOOLEAN :
               /\ fs' = safe_remove(fs, dst, ok)
               /\ warned' = Warn(warned, idx, fs, dst, ok)
       ELSE UNCHANGED <<fs, warned>>
    /\ pc' = "loop"
    /\ UNCHANGED <<planVars, idx, dst, cmd, rc, procs, calls, log, before, success, error,
                   inputVars, mainVars, disk>>

\* line 362: success, remove original
Commit ==
    /\ pc = "exited"
    /\ Outcome(fs, rc, dst) = "OK"
    /\ \E ok \in BOOLEAN :
          /\ fs' = safe_remove(fs, actions[idx].src, ok)
          /\ warned' = Warn(warned, idx, fs, actions[idx].src, ok)
    /\ pc' = "committed"
    /\ UNCHANGED <<planVars, idx, dst, cmd, rc, procs, calls, log, before, success, error,
                   inputVars, mainVars, disk>>

\* faulty variant: a source that could not be removed makes the action an error
LogSuccessStrict ==
    /\ pc = "committed"
    /\ IF exists(fs, actions[idx].src)
       THEN /\ log' = Append(log, LogRow(actions[idx], dst, "ERROR"))
            /\ error' = error + 1
            /\ UNCHANGED success
       ELSE /\ log' = Append(log, LogRow(actions[idx], dst, "OK"))
            /\ success' = success + 1
            /\ UNCHANGED error
    /\ pc' = "loop"
    /\ UNCHANGED <<fs, planVars, idx, dst, cmd, rc, procs, calls, warned, before,
                   inputVars, mainVars, disk>>

\* lines 363-365: the success is logged and counted, then the next action
LogSuccess ==
    /\ pc = "committed"
    /\ log' = Append(log, LogRow(actions[idx], dst, "OK"))
    /\ success' = success + 1
    /\ pc' = "loop"
    /\ UNCHANGED <<fs, planVars, idx, dst, cmd, rc, procs, calls, warned, before, error,
                   inputVars, mainVars, disk>>

\* lines 322 and 367: the loop is over, the with block closes the log, which
\* writes the buffered rows to the file, and apply_actions returns (success, error).
\* The rows of a batch of this size do not fill the buffer before that.
Finish ==
    /\ pc = "loop"
    /\ idx = Len(actions)
    /\ pc' = "done"
    /\ disk' = log
    /\ UNCHANGED <<fs, planVars, runVars, inputVars, mainVars>>

Next ==
    \/ PlanCandidate
    \/ PlanDone
    \/ PreviewAction
    \/ StartTranscode
    \/ FfmpegExit
    \/ LogFailure
    \/ Cleanup
    \/ Commit
    \/ LogSuccess
    \/ Finish

Spec == Init /\ [][Next]_vars

SpecBatch == InitBatch /\ [][Next]_vars

NextPreview == PlanCandidate \/ PlanDone \/ PreviewAction \/ Finish

SpecResolve == InitResolve /\ [][NextPreview]_vars

NextMain == Preflight \/ ReadReport \/ Next \/ MainReturn

SpecMain == InitMain /\ [][NextMain]_vars

\* the interpreter goes on to its next statement, and every external process
\* that was started exits (proc.wait() at line 305 returns)
SpecLive == InitMain /\ [][NextMain]_vars /\ WF_vars(NextMain)

TypeOK ==
    /\ pc \in {"main", "read", "exit", "plan", "loop", "running", "exited", "cleanup",
              "committed", "done"}
    /\ idx \in 0..Len(actions)
    /\ exitcode \in {NoExit, 0, 1, 2}
    /\ env \in [tools : BOOLEAN, xlsx : BOOLEAN, readable : BOOLEAN, rootdir : BOOLEAN]
    /\ Len(disk) <= Len(log)
    /\ success + error <= Len(actions)

\* ------- properties -------

\* the action idx has concluded in Apply mode
Concluded == ~preview /\ pc \in {"loop", "done"} /\ idx >= 1 /\ Len(log) >= idx

\* the output at path p passes the integrity check: probeable, an audio stream,
\* a duration above half a second
Verified(f, p) == exists(f, p) /\ f[p].probe /\ f[p].audio /\ f[p].dur >= 6

\* C1 as stated: after an action has concluded in Apply mode, its source file
\* exists if and only if the outcome of the action is not Success (OK).
C1_CommitSafety ==
    Concluded => (exists(fs, actions[idx].src) <=> log[idx].status # "OK")

\* C1 amended: after an action has concluded in Apply mode with an outcome other
\* than Success, its source is exactly as it was when the action started (never
\* removed by the action, absent only if it was absent already); after Success
\* the source is gone, unless os.remove failed and safe_remove warned about it.
C1_CommitSafetyAmended ==
    Concluded =>
        LET src == actions[idx].src
        IN  /\ log[idx].status # "OK" =>
                /\ exists(fs, src) <=> exists(before, src)
                /\ exists(fs, src) => fs[src] = before[src]
            /\ log[idx].status = "OK" =>
                \/ ~exists(fs, src)
                \/ [idx |-> idx, path |-> src] \in warned

\* a failed action kept its source, the next one succeeded and removed its own
C1_Witness ==
    /\ ~preview /\ pc = "done" /\ Len(log) = 2
    /\ log[1].status # "OK" /\ exists(fs, actions[1].src)
    /\ log[2].status = "OK" /\ ~exists(fs, actions[2].src)
    /\ warned = {}

\* C2: a file is removed only in one of two ways: as the source of the action
\* being executed in Apply mode, after that action's transcoder was invoked and
\* exited with code 0 and the destination exists and passes verification; or as
\* the partial output that the failed action's own transcoder wrote. Hence no
\* source is removed in Preview mode or on the Error and ErrorVerify paths.
C2_CommitOrdering ==
    [][\A p \in DOMAIN fs : p \notin DOMAIN fs' =>
          IF pc = "cleanup"
          THEN p = dst /\ fs[p].by = idx /\ p # actions[idx].src
               /\ log[idx].status \in {"ERROR", "ERROR: verify"}
          ELSE /\ ~preview
               /\ pc = "exited"
               /\ p = actions[idx].src
               /\ calls # <<>> /\ calls[Len(calls)].idx = idx
               /\ calls[Len(calls)].cmd.output = dst
               /\ procs = {}
               /\ rc = 0
               /\ Verified(fs, dst)]_vars

\* a source has just been removed, after a transcode that exited 0 and verified
C2_Witness ==
    /\ pc = "committed"
    /\ exists(before, actions[idx].src) /\ ~exists(fs, actions[idx].src)
    /\ rc = 0 /\ Verified(fs, dst)

\* C3: when the transcoder is invoked, the path it is told to write does not
\* exist; no step changes the content of an existing file; and what Cleanup
\* removes did not exist when the action started.
C3_NoOverwrite ==
    [][/\ (pc # "running" /\ pc' = "running") =>
            /\ ~exists(fs', cmd'.output)
            /\ cmd'.output = dst'
            /\ calls'[Len(calls')].cmd = cmd'
       /\ \A p \in DOMAIN fs : p \in DOMAIN fs' => fs'[p] = fs[p]
       /\ \A p \in DOMAIN fs : (p \notin DOMAIN fs' /\ pc = "cleanup") => ~exists(before, p)
      ]_vars

\* the second action's planned destination was created by the first action, so
\* its transcoder writes to a freshly allocated name
C3_Witness ==
    /\ pc = "running" /\ idx = 2
    /\ exists(fs, actions[2].dst) /\ fs[actions[2].dst].by = 1
    /\ cmd.output # actions[2].dst
    /\ ~exists(fs, cmd.output)

\* C4: in a Preview run no transcoder is invoked and the filesystem stays as it
\* was when the run started.
C4_PreviewMutationFree ==
    preview => /\ fs = fs0
               /\ calls = <<>>
               /\ procs = {}
               /\ pc \in {"plan", "loop", "done"}

\* a Preview run that logged two actions and finished
C4_Witness ==
    /\ preview /\ pc = "done" /\ Len(log) = 2
    /\ \A i \in 1..2 : log[i].status = "PREVIEW"

\* C5 as stated: after an action has concluded with Error or ErrorVerify, its
\* destination path does not exist and its source file is still present.
C5_Rollback ==
    (Concluded /\ log[idx].status \in {"ERROR", "ERROR: verify"}) =>
        ~exists(fs, dst) /\ exists(fs, actions[idx].src)

\* the number of rows of the log whose status is in S
RECURSIVE CountStatus(_, _)
CountStatus(l, S) ==
    IF l = <<>> THEN 0
    ELSE (IF Head(l).status \in S THEN 1 ELSE 0) + CountStatus(Tail(l), S)

\* C6: the status of every row written in Apply mode is decided by the exit
\* code and the verification of the destination alone: ERROR iff the exit code
\* is not 0, ERROR: verify iff it is 0 and the destination is missing or fails
\* the check, OK iff it is 0 and the destination exists and passes the check;
\* every destination logged OK passes the check when it is logged.
C6_Classification ==
    [][(~preview /\ Len(log') = Len(log) + 1) =>
          LET row == log'[Len(log')]
          IN  /\ row.status \in {"OK", "ERROR", "ERROR: verify"}
              /\ row.destination = dst
              /\ row.status = "ERROR" <=> rc # 0
              /\ row.status = "ERROR: verify" <=> (rc = 0 /\ ~Verified(fs, dst))
              /\ row.status = "OK" <=> (rc = 0 /\ Verified(fs, dst))
              /\ row.status = "OK" => Verified(fs', row.destination)]_vars

\* an output of exactly half a second was rejected (and could not be removed),
\* the next action's output was accepted
C6_Witness ==
    /\ ~preview /\ Len(log) = 2
    /\ log[1].status = "ERROR: verify"
    /\ exists(fs, log[1].destination) /\ fs[log[1].destination] = OutShort(1)
    /\ log[2].status = "OK"

\* C7: every action gets exactly one transcoder invocation (Apply) and exactly
\* one audit row, in order, whatever the outcomes of the actions before it; the
\* counters are the numbers of OK rows and of ERROR and ERROR: verify rows, and
\* when the run is over they add up to the number of actions (both 0 in Preview).
C7_Accounting ==
    /\ Len(log) <= Len(actions)
    /\ \A i \in 1..Len(log) :
          log[i].source = actions[i].src /\ log[i].kind = actions[i].kind
    /\ \A i \in 1..Len(calls) : calls[i].idx = i /\ calls[i].cmd.input = actions[i].src
    /\ success = CountStatus(log, {"OK"})
    /\ error = CountStatus(log, {"ERROR", "ERROR: verify"})
    /\ pc \in {"loop", "done"} =>
          /\ Len(log) = idx
          /\ Len(calls) = IF preview THEN 0 ELSE idx
    /\ pc = "done" =>
          /\ Len(log) = Len(actions)
          /\ IF preview THEN success = 0 /\ error = 0
             ELSE success + error = Len(actions) /\ Len(calls) = Len(actions)

\* the first action failed, the second was still executed and succeeded
C7_Witness ==
    /\ ~preview /\ pc = "done" /\ Len(actions) = 2
    /\ log[1].status = "ERROR" /\ log[2].status = "OK"
    /\ success = 1 /\ error = 1

IsPlan(r) == r.status = "PLAN"

\* the position of the first occurrence of x in the sequence s
FirstIndex(s, x) == CHOOSE i \in 1..Len(s) : s[i] = x /\ \A j \in 1..(i - 1) : s[j] # x

\* C8: the actions are in the first-seen order of the candidates they were
\* planned for; transcoders are launched and audit rows written in that order;
\* when a transcoder is running every earlier action has its row, and at most
\* one external process is in flight.
C8_SequentialOrder ==
    /\ \A i \in 1..(Len(rows) - 1) :
          FirstIndex(candidates, rows[i].raw) < FirstIndex(candidates, rows[i + 1].raw)
    /\ LET planned == SelectSeq(rows, IsPlan)
       IN  pc # "plan" =>
             /\ Len(planned) = Len(actions)
             /\ \A i \in 1..Len(actions) : actions[i].src = planned[i].resolved
    /\ Cardinality(procs) <= 1
    /\ \A i \in 1..Len(calls) : calls[i].idx = i /\ calls[i].cmd.input = actions[i].src
    /\ \A i \in 1..Len(log) : log[i].source = actions[i].src
    /\ pc \in {"running", "exited"} => Len(log) = idx - 1 /\ Len(calls) = idx
    /\ pc = "running" <=> procs # {}

\* two different files were planned and executed one after the other
C8_Witness ==
    /\ ~preview /\ pc = "running" /\ idx = 2 /\ Len(log) = 1
    /\ actions[1].src # actions[2].src
    /\ candidates[1] # candidates[2]
    /\ procs = {[idx |-> 2, cmd |-> cmd]}

\* the paths the allocator is asked about: a.flac, a (2).flac, Music/a.flac
ProbePaths == {FileAt(root, "a", "flac"), A2Flac, FileAt(MusicDir, "a", "flac")}

WithCounter(p, n) == [p EXCEPT !.ctr = Append(@, n)]

\* r is what the allocator must return for p on the filesystem f
Allocated(f, p, r) ==
    /\ ~exists(f, r)
    /\ ~exists(f, p) => r = p
    /\ exists(f, p) =>
          /\ r.ctr # <<>>
          /\ r = WithCounter(p, r.ctr[Len(r.ctr)])
          /\ r.ctr[Len(r.ctr)] >= 2
          /\ \A m \in 2..(r.ctr[Len(r.ctr)] - 1) : exists(f, WithCounter(p, m))

\* C9: unique_target_path(p) is p when p does not exist, else p's stem with
\* " (N)" and p's extension for the smallest N >= 2 that does not exist; the
\* result does not exist, and the allocator returns its own result unchanged.
\* This holds of every probed path on every filesystem the run goes through
\* (each is the filesystem of a state between two actions), and of the
\* destination each action was given when it was planned and when it started.
C9_Allocator ==
    /\ pc \in {"plan", "loop"} =>
          \A p \in ProbePaths :
             LET r == unique_target_path(fs, p)
             IN  Allocated(fs, p, r) /\ unique_target_path(fs, r) = r
    /\ idx >= 1 => Allocated(before, actions[idx].dst, dst)
    /\ \A i \in 1..Len(actions) :
          Allocated(fs0, with_suffix(actions[i].src, "flac"), actions[i].dst)

\* a.flac and a (2).flac were there, so a (3).flac was planned; it was still
\* free when the action started, so it was kept
C9_Witness ==
    /\ idx >= 1
    /\ actions[idx].dst = WithCounter(FileAt(root, "a", "flac"), 3)
    /\ dst = actions[idx].dst
    /\ pc = "exited" /\ exists(fs, dst)

\* C10: decide_actions_for_path gives exactly one convert_m4a action for a file
\* of the .m4a/.mp4 family, whatever its decode test would say; for a .flac
\* file exactly one repair_flac action when the decode test fails and none when
\* it passes; none for any other extension. This holds of every file of every
\* filesystem the run goes through, and the plan rows say the same.
C10_DecisionTable ==
    /\ pc \in {"plan", "loop"} =>
          \A q \in DOMAIN fs \cup {FileAt(root, "a", "M4A"), FileAt(root, "a", "txt")} :
             LET acts == decide_actions_for_path(fs, q)
             IN  IF Lower(q.ext) \in {"m4a", "mp4"}
                 THEN Len(acts) = 1 /\ acts[1].kind = "convert_m4a" /\ acts[1].src = q
                 ELSE IF Lower(q.ext) = "flac" /\ ~fs[q].dec
                 THEN Len(acts) = 1 /\ acts[1].kind = "repair_flac" /\ acts[1].src = q
                 ELSE acts = <<>>
    /\ \A i \in 1..Len(rows) :
          LET r == rows[i]
          IN  r.resolved # NoPath =>
                /\ Lower(r.resolved.ext) \in {"m4a", "mp4"} =>
                      r.status = "PLAN" /\ r.kinds = <<"convert_m4a">>
                /\ (Lower(r.resolved.ext) = "flac" /\ ~fs0[r.resolved].dec) =>
                      r.status = "PLAN" /\ r.kinds = <<"repair_flac">>
                /\ (Lower(r.resolved.ext) = "flac" /\ fs0[r.resolved].dec) =>
                      r.status = "OK (no fix required)" /\ r.kinds = <<>>

\* a broken a.flac got a repair, a.MP4 got a conversion
C10_Witness ==
    /\ Len(rows) = 2 /\ Len(actions) = 2
    /\ \E i, j \in 1..2 :
          /\ rows[i].kinds = <<"repair_flac">> /\ rows[i].resolved.ext = "flac"
          /\ rows[j].kinds = <<"convert_m4a">> /\ rows[j].resolved.ext = "MP4"

\* ------- C11: path resolution -------

\* the file a candidate names, read off its text
C11_Named(raw) ==
    FileAt(IF raw.abs THEN raw.dir
           ELSE IF raw.dir = <<"..", "other">> THEN OtherDir
           ELSE root \o raw.dir,
           raw.base, raw.ext)

\* C11: a candidate, taken as absolute or relative to root, is accepted exactly
\* when the file it names exists and really lies within root; only otherwise the
\* file of the same name directly in root is accepted, if it exists; when both
\* fail the row is NOT FOUND and no action is planned. No file outside root is
\* ever the resolved file or the source of an action.
C11_PathResolution ==
    /\ \A i \in 1..Len(rows) :
          LET raw == rows[i].raw
              named == C11_Named(raw)
              first == named \in DOMAIN fs0 /\ named.dir[1] = "lib"
              inRoot == FileAt(root, raw.base, raw.ext)
          IN  /\ first => rows[i].resolved = named
              /\ (~first /\ inRoot \in DOMAIN fs0) => rows[i].resolved = inRoot
              /\ (~first /\ inRoot \notin DOMAIN fs0) =>
                     /\ rows[i].resolved = NoPath
                     /\ rows[i].status = "NOT FOUND"
                     /\ rows[i].kinds = <<>>
              /\ rows[i].resolved # named => named \notin DOMAIN fs0 \/ named.dir = OtherDir
    /\ \A k \in 1..Len(actions) :
          /\ actions[k].src \in DOMAIN fs0
          /\ actions[k].src.dir \in {root, MusicDir}
          /\ \E i \in 1..Len(rows) :
                 rows[i].resolved = actions[k].src /\ rows[i].status = "PLAN"

\* a candidate climbing out of root names a file that exists, there is no file
\* of that name in root, and the candidate is not found
C11_Witness ==
    \E i \in 1..Len(rows) :
        /\ rows[i].raw = Raw(FALSE, <<"..", "other">>, "a", "m4a")
        /\ FileAt(OtherDir, "a", "m4a") \in DOMAIN fs0
        /\ rows[i].resolved = NoPath
        /\ rows[i].status = "NOT FOUND"

\* ------- C12: truthful partial log -------

\* the actions that have concluded
NumConcluded == IF pc \in {"loop", "done"} THEN idx ELSE IF idx >= 1 THEN idx - 1 ELSE 0

\* C12: whenever the run is interrupted, the log file holds the row of every
\* concluded action that changed the filesystem (removed its source, or left a
\* destination it created): the file at any point of the run is what an
\* interruption at that point leaves behind.
C12_TruthfulPartialLog ==
    \A i \in 1..NumConcluded :
        (\/ \E p \in DOMAIN fs : fs[p].by = i
         \/ actions[i].src \in DOMAIN fs0 /\ actions[i].src \notin DOMAIN fs)
        => (Len(disk) >= i /\ disk[i] = log[i])

\* ------- C13: exit codes -------

\* C13: the run exits with 2 exactly when a tool is missing, whatever the report
\* and the root are like; with 1 when the tools are there and the report or the
\* root is unusable; in both cases nothing has been planned, run, logged or
\* changed; otherwise it goes through the whole batch and exits with 0,
\* whatever the per-file errors.
C13_ExitCodes ==
    LET unusable == ~env.xlsx \/ ~env.rootdir \/ ~env.readable
    IN  /\ ~env.tools => pc \in {"main", "exit"} /\ exitcode \in {NoExit, 2}
        /\ (env.tools /\ unusable) =>
               pc \in {"main", "read", "exit"} /\ exitcode \in {NoExit, 1}
        /\ env = EnvOK => exitcode \in {NoExit, 0}
        /\ pc = "exit" <=> exitcode # NoExit
        /\ exitcode \in {1, 2} =>
               /\ ci = 0 /\ rows = <<>> /\ actions = <<>>
               /\ calls = <<>> /\ log = <<>> /\ fs = fs0
        /\ exitcode = 0 =>
               /\ ci = Len(candidates)
               /\ idx = Len(actions)
               /\ Len(log) = Len(actions)
               /\ success + error = (IF preview THEN 0 ELSE Len(actions))

\* a batch with a failed action has ended with exit code 0
C13_Witness == exitcode = 0 /\ error >= 1 /\ success >= 1

\* ------- C14: a source that cannot be removed -------

\* the removal of the source of action i failed
SourceKept(i) == [idx |-> i, path |-> actions[i].src] \in warned

\* C14: when the source of an action cannot be removed after its output was
\* verified, the action still concludes with OK and is counted as a success, its
\* verified destination is kept next to the source, and the batch goes on to the
\* remaining actions.
C14_DeleteFailureIsSuccess ==
    /\ (Concluded /\ SourceKept(idx)) =>
           /\ log[idx].status = "OK"
           /\ exists(fs, actions[idx].src)
           /\ Verified(fs, dst) /\ fs[dst].by = idx
           /\ success = CountStatus(log, {"OK"})
           /\ success >= 1
    /\ \A i \in 1..Len(log) : SourceKept(i) => log[i].status = "OK"
    /\ (pc = "done" /\ ~preview) => Len(log) = Len(actions)

\* the source of the first action could not be removed, the action is logged
\* OK, and the second action has been executed after it
C14_Witness ==
    /\ pc = "done"
    /\ Len(log) = 2
    /\ SourceKept(1)
    /\ log[1].status = "OK"
    /\ exists(fs, log[1].destination)
    /\ success >= 1

\* ------- C15: the frame of one action -------

\* C15: from its start to its conclusion an action changes no path but its own
\* source and its own destination as allocated when it started: every other
\* file is there before and after with the same content. The source is never
\* modified, and it is removed only when the action succeeds; the destination did
\* not exist when the action started, so what is there is the action's own
\* output. In Preview nothing changes at all.
C15_ActionFrame ==
    idx >= 1 =>
       LET src == actions[idx].src
       IN  /\ \A p \in (DOMAIN before \cup DOMAIN fs) \ {src, dst} :
                  p \in DOMAIN before /\ p \in DOMAIN fs /\ fs[p] = before[p]
           /\ preview => fs = before
           /\ dst \notin DOMAIN before
           /\ dst \in DOMAIN fs => fs[dst].by = idx
           /\ src \in DOMAIN fs => (src \in DOMAIN before /\ fs[src] = before[src])
           /\ (src \in DOMAIN before /\ src \notin DOMAIN fs) =>
                  \/ pc = "committed"
                  \/ pc \in {"loop", "done"} /\ Len(log) >= idx /\ log[idx].status = "OK"

\* a.m4a has been converted next to an a.flac that was there before: the output
\* is a (2).flac, a.m4a is gone and a.flac is as it was
C15_Witness ==
    /\ Concluded
    /\ log[idx].status = "OK"
    /\ actions[idx].src = FileAt(root, "a", "m4a")
    /\ dst = A2Flac
    /\ exists(before, FileAt(root, "a", "flac"))
    /\ exists(fs, FileAt(root, "a", "flac"))
    /\ fs[FileAt(root, "a", "flac")] = before[FileAt(root, "a", "flac")]
    /\ exists(before, actions[idx].src)
    /\ ~exists(fs, actions[idx].src)
    /\ exists(fs, A2Flac)

\* ------- C16: successful outputs are stable -------

\* C16: once an action has concluded with OK, its destination stays in place
\* with the content that action wrote until the batch ends, and no later action
\* of the batch is run with that path as its output: the outputs of successful
\* actions are pairwise distinct files that no later action writes, commits over
\* or removes.
C16_StableOutputs ==
    \A i \in 1..Len(log) :
        log[i].status = "OK" =>
           /\ exists(fs, log[i].destination)
           /\ fs[log[i].destination].by = i
           /\ \A k \in 1..Len(calls) :
                  calls[k].idx > i => calls[k].cmd.output # log[i].destination

\* ------- C17: one action per file -------

\* C17: the planned actions have pairwise different source files, also when
\* different candidate strings resolve to one file.
C17_OneActionPerFile ==
    \A i, j \in 1..Len(actions) : i # j => actions[i].src # actions[j].src

\* ------- C18: termination -------

Terminal == {"PREVIEW", "OK", "ERROR", "ERROR: verify"}

\* C18: when every external process that is started exits, the run ends; when
\* it ends with the batch executed, every planned action has its row with a
\* terminal status, and every destination was allocated within as many counter
\* steps as there were files. And the only step out of a running transcode is
\* the exit of that process: nothing else moves the batch on, no row is written
\* and no next action is started while it runs.
C18_Termination ==
    /\ <>(/\ pc = "exit"
          /\ exitcode = 0 =>
                /\ Len(log) = Len(actions)
                /\ \A i \in 1..Len(log) : log[i].status \in Terminal)
    /\ [](idx >= 1 /\ dst.ctr # actions[idx].dst.ctr =>
             dst.ctr[Len(dst.ctr)] <= Cardinality(DOMAIN before) + 1)
    /\ [][pc = "running" =>
             /\ pc' = "exited"
             /\ procs # {} /\ procs' = {}
             /\ idx' = idx /\ log' = log]_vars

\* a batch of two actions has ended, the first one failed, and the allocator
\* had to count past a name that was taken
C18_Witness ==
    /\ pc = "exit" /\ exitcode = 0 /\ ~preview
    /\ Len(actions) = 2 /\ Len(log) = 2
    /\ log[1].status = "ERROR: verify"
    /\ log[2].status \in Terminal
    /\ dst.ctr # <<>>

====
